---- MODULE Spec2Model ----
(***************************************************************************)
(* The pushdown automaton engine of ts-experiments (PushdownAutomaton and  *)
(* Stack), modelled on a heap: a Stack object holds a reference to a       *)
(* JavaScript array, an automaton holds references to two Stack objects,   *)
(* and the caller holds one array variable and one Stack variable.         *)
(***************************************************************************)
EXTENDS Integers, Sequences, FiniteSets, TLC

\* ------------------------------------------------------------------ bounds
\* Longest control stack and longest input the specifications let a caller or a
\* step build (the driver loop has its own bound on the input it feeds).
MaxStack == 2
MaxIn == 1
\* Longest input the driver loop feeds.
MaxFeed == 4
\* Most step() calls the driver loop makes on one automaton, and most inputs it
\* feeds to it.
MaxSteps == 6
MaxFeeds == 2
\* Heap slots for Stack objects and for arrays (live objects are packed first).
NStk == 8
NArr == 9

\* -------------------------------------------------------------- alphabets
undefined == "undefined"
null == "null"
Automata == {"A", "B"}
StateAlphabet == {"Q", "R"}
StackAlphabet == {"Z0", "P"}
InputAlphabet == {"(", ")"}
Functions == {"paren", "scan"}
StkIds == 1..NStk
ArrIds == 1..NArr

RECURSIVE SeqsOfLen(_, _)
SeqsOfLen(S, n) ==
    IF n = 0 THEN {<<>>}
    ELSE {Append(s, x) : s \in SeqsOfLen(S, n - 1), x \in S}
SeqsUpTo(S, n) == UNION {SeqsOfLen(S, k) : k \in 0..n}

VARIABLES
    pda,      \* pda[a]: the private fields of automaton a
    stk,      \* stk[s]: the array the Stack object s holds in #stack (0: no object)
    arr,      \* arr[j]: the elements of array j, bottom first
    symbols,  \* the caller's array variable (an array reference)
    held,     \* the caller's two Stack variables: [ref, other, kind], 0 when unset
    last,     \* the operation that produced this state, with what a step obtained
    drv       \* what A was constructed with, the driver loop's position and tallies

vars == <<pda, stk, arr, symbols, held, last, drv>>

\* ------------------------------------------------------------------- heap
\* The heap as a value; nextStk and nextArr are the next unused slots.
Heap ==
    [stk |-> stk, arr |-> arr,
     nextStk |-> 1 + Cardinality({s \in StkIds : stk[s] # 0}),
     nextArr |-> 1 + Cardinality({stk[s] : s \in {t \in StkIds : stk[t] # 0}} \cup {symbols})]

EmptyHeap ==
    [stk |-> [s \in StkIds |-> 0], arr |-> [j \in ArrIds |-> <<>>],
     nextStk |-> 1, nextArr |-> 1]

\* A new array literal with the given elements; .ref is its reference.
NewArray(h, elems) ==
    [h |-> [h EXCEPT !.arr[h.nextArr] = elems, !.nextArr = @ + 1], ref |-> h.nextArr]

Contents(h, s) == h.arr[h.stk[s]]

Reverse(s) == [i \in 1..Len(s) |-> s[Len(s) + 1 - i]]

\* fromArray that turns the array round, its first element becoming the top.
StackFromArrayReversed(h, a) ==
    [h |-> [h EXCEPT !.stk[h.nextStk] = a, !.arr[a] = Reverse(@), !.nextStk = @ + 1],
     ref |-> h.nextStk]

\* ------------------------------------------------------------ class Stack
\* static fromArray: the new Stack holds the very array it is given.
StackFromArray(h, a) ==
    [h |-> [h EXCEPT !.stk[h.nextStk] = a, !.nextStk = @ + 1], ref |-> h.nextStk]

\* constructor: this.#stack = []
NewStack(h) ==
    LET a == NewArray(h, <<>>) IN StackFromArray(a.h, a.ref)

StackPush(h, s, item) == [h EXCEPT !.arr[h.stk[s]] = Append(@, item)]

\* What pop() returns.
StackPopped(h, s) ==
    LET c == Contents(h, s) IN IF c = <<>> THEN undefined ELSE c[Len(c)]

\* What pop() does to the array.
StackPop(h, s) ==
    [h EXCEPT !.arr[h.stk[s]] = IF @ = <<>> THEN @ ELSE SubSeq(@, 1, Len(@) - 1)]

\* head() that fails on an empty Stack instead of returning undefined.
StackHeadFails(h, s) ==
    LET c == Contents(h, s) IN IF c = <<>> THEN "error" ELSE c[Len(c)]

StackHead(h, s) ==
    LET c == Contents(h, s) IN IF c = <<>> THEN undefined ELSE c[Len(c)]

\* delete() that removes nothing.
StackDeleteNoop(h, s) == h

StackDelete(h, s) == StackPop(h, s)

\* copy() that moves the elements to the new Stack and leaves this one empty.
StackCopyDrains(h, s) ==
    LET a == NewArray(h, Contents(h, s))
        c == StackFromArray(a.h, a.ref)
    IN [h |-> [c.h EXCEPT !.arr[h.stk[s]] = <<>>], ref |-> c.ref]

\* copy() that hands out a Stack on the same array.
StackCopyShares(h, s) == StackFromArray(h, h.stk[s])

\* copy: fromArray of a spread of the array, a new array with the same elements.
StackCopy(h, s) ==
    LET a == NewArray(h, Contents(h, s)) IN StackFromArray(a.h, a.ref)

\* clear() that removes the top item only.
StackClearRemovesTop(h, s) == StackPop(h, s)

\* clear: this.#stack = [], a new array; the old one is left as it is.
StackClear(h, s) ==
    LET a == NewArray(h, <<>>) IN [a.h EXCEPT !.stk[s] = a.ref]

\* appendArray that replaces what the Stack held.
StackAppendArrayReplaces(h, s, array) == [h EXCEPT !.arr[h.stk[s]] = array]

StackAppendArray(h, s, array) == [h EXCEPT !.arr[h.stk[s]] = @ \o array]

StackActionResult(h, s, action) ==
    IF action.action = "pop"
    THEN (IF StackPopped(h, s) \in {undefined, null} THEN action.default
          ELSE StackPopped(h, s))
    ELSE undefined

StackAction(h, s, action) ==
    IF action.action = "delete" THEN StackDelete(h, s)
    ELSE IF action.action = "push" THEN StackPush(h, s, action.item)
    ELSE IF action.action = "pop" THEN StackPop(h, s)
    ELSE IF action.action = "clear" THEN StackClear(h, s)
    ELSE h

\* The actions a caller can hand to Stack.action for an alphabet T.
StackActions(T) ==
    {[action |-> "delete"], [action |-> "ignore"], [action |-> "clear"]}
    \cup {[action |-> "push", item |-> x] : x \in T}
    \cup {[action |-> "pop", default |-> x] : x \in T}

\* --------------------------------------------------- transition functions
Resolve(result) == [action |-> "resolve", result |-> result]
Continue(stackAction, state) ==
    [action |-> "continue", stackAction |-> stackAction, state |-> state]

\* The balanced-parentheses recognizer: always pops the input.
Paren(state, stackSymbol) ==
    [action |-> "pop",
     continue |-> [inputSymbol \in InputAlphabet \cup {undefined} |->
        IF inputSymbol = undefined
        THEN (IF stackSymbol = "Z0" THEN Resolve("accept") ELSE Resolve("reject"))
        ELSE IF inputSymbol = "("
        THEN Continue([action |-> "push", item |-> "P"], "Q")
        ELSE IF stackSymbol = "P"
        THEN Continue([action |-> "delete"], "Q")
        ELSE Resolve("reject")]]

\* A function that never reads the input: it empties the stack, deletes once
\* more on the empty stack, pushes, and resolves on P in Q and on Z0 in R.
Scan(state, stackSymbol) ==
    [action |-> "ignore",
     continue |->
        IF state = "Q" /\ stackSymbol = "Z0" THEN Continue([action |-> "delete"], "Q")
        ELSE IF state = "Q" /\ stackSymbol = undefined THEN Continue([action |-> "delete"], "R")
        ELSE IF state = "R" /\ stackSymbol = undefined
        THEN Continue([action |-> "push", item |-> "P"], "R")
        ELSE IF state = "R" /\ stackSymbol = "P" THEN Continue([action |-> "ignore"], "Q")
        ELSE IF state = "Q" THEN Resolve("accept")
        ELSE Resolve("reject")]

Transition(f, state, stackSymbol) ==
    IF f = "paren" THEN Paren(state, stackSymbol) ELSE Scan(state, stackSymbol)

\* ------------------------------------------------ class PushdownAutomaton
\* A constructor that forgets to push the initial stack symbol.
NewAutomatonEmptyStack(h, initialState, initialStackSymbol, transition) ==
    LET s == NewStack(h)
        i == NewStack(s.h)
    IN [h |-> i.h,
        p |-> [stack |-> s.ref, state |-> initialState, transition |-> transition,
               result |-> null,
               initialState |-> [stackSymbol |-> initialStackSymbol, state |-> initialState],
               input |-> i.ref]]

\* constructor(initialState, initialStackSymbol, transition)
NewAutomaton(h, initialState, initialStackSymbol, transition) ==
    LET s == NewStack(h)
        i == NewStack(StackPush(s.h, s.ref, initialStackSymbol))
    IN [h |-> i.h,
        p |-> [stack |-> s.ref, state |-> initialState, transition |-> transition,
               result |-> null,
               initialState |-> [stackSymbol |-> initialStackSymbol, state |-> initialState],
               input |-> i.ref]]

\* input(input): the new input Stack is built by fromArray on the caller's array.
Input(h, p, array) ==
    LET s == StackFromArray(h, array) IN [h |-> s.h, p |-> [p EXCEPT !.input = s.ref]]

\* advance(): what the transition function is called with, what it returns, the
\* symbol popped, the action.
Query(h, p) == [state |-> p.state, stackSymbol |-> StackHead(h, p.stack)]
Action1(h, p) == Transition(p.transition, Query(h, p).state, Query(h, p).stackSymbol)
InputSymbol(h, p) ==
    IF Action1(h, p).action = "pop" THEN StackPopped(h, p.input) ELSE "-"
Action2(h, p) ==
    IF Action1(h, p).action = "pop"
    THEN Action1(h, p).continue[StackPopped(h, p.input)]
    ELSE Action1(h, p).continue

\* advance() that clears the result whenever it continues.
AdvanceClearsResult(h, p) ==
    LET action1 == Action1(h, p)
        h1 == IF action1.action = "pop" THEN StackPop(h, p.input) ELSE h
        action2 == Action2(h, p)
    IN IF action2.action = "resolve"
       THEN [h |-> h1, p |-> [p EXCEPT !.result = action2.result]]
       ELSE [h |-> StackAction(h1, p.stack, action2.stackAction),
             p |-> [p EXCEPT !.state = action2.state, !.result = null]]

\* advance() that drops the top of the control stack when it resolves.
AdvanceDeletesOnResolve(h, p) ==
    LET action1 == Action1(h, p)
        h1 == IF action1.action = "pop" THEN StackPop(h, p.input) ELSE h
        action2 == Action2(h, p)
    IN IF action2.action = "resolve"
       THEN [h |-> StackDelete(h1, p.stack), p |-> [p EXCEPT !.result = action2.result]]
       ELSE [h |-> StackAction(h1, p.stack, action2.stackAction),
             p |-> [p EXCEPT !.state = action2.state]]

\* advance() that applies the stack action and forgets the new state.
AdvanceKeepsState(h, p) ==
    LET action1 == Action1(h, p)
        h1 == IF action1.action = "pop" THEN StackPop(h, p.input) ELSE h
        action2 == Action2(h, p)
    IN IF action2.action = "resolve"
       THEN [h |-> h1, p |-> [p EXCEPT !.result = action2.result]]
       ELSE [h |-> StackAction(h1, p.stack, action2.stackAction), p |-> p]

\* advance() that puts the popped symbol back when the action is Resolve.
AdvanceKeepsInputOnResolve(h, p) ==
    LET action1 == Action1(h, p)
        h1 == IF action1.action = "pop" THEN StackPop(h, p.input) ELSE h
        action2 == Action2(h, p)
    IN IF action2.action = "resolve"
       THEN [h |-> h, p |-> [p EXCEPT !.result = action2.result]]
       ELSE [h |-> StackAction(h1, p.stack, action2.stackAction),
             p |-> [p EXCEPT !.state = action2.state]]

\* advance() that does nothing once the result is set.
AdvanceGuarded(h, p) ==
    LET action1 == Action1(h, p)
        h1 == IF action1.action = "pop" THEN StackPop(h, p.input) ELSE h
        action2 == Action2(h, p)
    IN IF p.result # null
       THEN [h |-> h, p |-> p]
       ELSE IF action2.action = "resolve"
       THEN [h |-> h1, p |-> [p EXCEPT !.result = action2.result]]
       ELSE [h |-> StackAction(h1, p.stack, action2.stackAction),
             p |-> [p EXCEPT !.state = action2.state]]

\* advance() that returns on a Resolve action without recording its result.
AdvanceDropsResolve(h, p) ==
    LET action1 == Action1(h, p)
        h1 == IF action1.action = "pop" THEN StackPop(h, p.input) ELSE h
        action2 == Action2(h, p)
    IN IF action2.action = "resolve"
       THEN [h |-> h1, p |-> p]
       ELSE [h |-> StackAction(h1, p.stack, action2.stackAction),
             p |-> [p EXCEPT !.state = action2.state]]

\* advance() that makes a second transition within the same call.
AdvanceTwice(h, p) ==
    LET once(h0, p0) ==
            LET action1 == Action1(h0, p0)
                h1 == IF action1.action = "pop" THEN StackPop(h0, p0.input) ELSE h0
                action2 == Action2(h0, p0)
            IN IF action2.action = "resolve"
               THEN [h |-> h1, p |-> [p0 EXCEPT !.result = action2.result]]
               ELSE [h |-> StackAction(h1, p0.stack, action2.stackAction),
                     p |-> [p0 EXCEPT !.state = action2.state]]
    IN once(once(h, p).h, once(h, p).p)

\* advance() that reads the top of the input without removing it.
AdvancePeeksInput(h, p) ==
    LET action2 == Action2(h, p)
    IN IF action2.action = "resolve"
       THEN [h |-> h, p |-> [p EXCEPT !.result = action2.result]]
       ELSE [h |-> StackAction(h, p.stack, action2.stackAction),
             p |-> [p EXCEPT !.state = action2.state]]

\* advance() that rejects by itself when the control stack is empty.
AdvanceRejectsOnEmptyStack(h, p) ==
    LET action1 == Action1(h, p)
        h1 == IF action1.action = "pop" THEN StackPop(h, p.input) ELSE h
        action2 == Action2(h, p)
    IN IF Contents(h, p.stack) = <<>>
       THEN [h |-> h, p |-> [p EXCEPT !.result = "reject"]]
       ELSE IF action2.action = "resolve"
       THEN [h |-> h1, p |-> [p EXCEPT !.result = action2.result]]
       ELSE [h |-> StackAction(h1, p.stack, action2.stackAction),
             p |-> [p EXCEPT !.state = action2.state]]

Advance(h, p) ==
    LET action1 == Action1(h, p)
        h1 == IF action1.action = "pop" THEN StackPop(h, p.input) ELSE h
        action2 == Action2(h, p)
    IN IF action2.action = "resolve"
       THEN [h |-> h1, p |-> [p EXCEPT !.result = action2.result]]
       ELSE [h |-> StackAction(h1, p.stack, action2.stackAction),
             p |-> [p EXCEPT !.state = action2.state]]

\* reset() that empties the Stacks it has instead of creating new ones.
ResetClearsInPlace(h, p) ==
    LET h1 == StackClear(h, p.stack)
        h2 == StackPush(h1, p.stack, p.initialState.stackSymbol)
    IN [h |-> StackClear(h2, p.input),
        p |-> [p EXCEPT !.state = p.initialState.state, !.result = null]]

\* reset() that leaves the input Stack in place.
ResetKeepsInput(h, p) ==
    LET s == NewStack(h)
    IN [h |-> StackPush(s.h, s.ref, p.initialState.stackSymbol),
        p |-> [p EXCEPT !.stack = s.ref, !.state = p.initialState.state, !.result = null]]

\* reset(): two new Stacks, the state and result as constructed.
Reset(h, p) ==
    LET s == NewStack(h)
        i == NewStack(StackPush(s.h, s.ref, p.initialState.stackSymbol))
    IN [h |-> i.h,
        p |-> [p EXCEPT !.stack = s.ref, !.state = p.initialState.state,
                        !.result = null, !.input = i.ref]]

\* ------------------------------------------------- garbage and renumbering
\* Objects nothing refers to any more are dropped and the live ones renumbered
\* in the order the automata, the caller's Stack and the caller's array reach
\* them, so that a state does not depend on the order of allocation.
RECURSIVE Dedup(_)
Dedup(s) ==
    IF s = <<>> THEN <<>>
    ELSE LET r == Dedup(SubSeq(s, 1, Len(s) - 1))
             x == s[Len(s)]
         IN IF \E i \in 1..Len(r) : r[i] = x THEN r ELSE Append(r, x)

IndexOf(s, x) == CHOOSE i \in 1..Len(s) : s[i] = x

Collect(p, h, sy, hd) ==
    LET U == Dedup(<<p["A"].stack, p["A"].input, p["B"].stack, p["B"].input>>
                   \o (IF hd.ref = 0 THEN <<>> ELSE <<hd.ref>>)
                   \o (IF hd.other = 0 THEN <<>> ELSE <<hd.other>>))
        V == Dedup([i \in 1..Len(U) |-> h.stk[U[i]]] \o <<sy>>)
    IN [pda |-> [a \in Automata |->
                    [p[a] EXCEPT !.stack = IndexOf(U, @), !.input = IndexOf(U, @)]],
        stk |-> [s \in StkIds |-> IF s <= Len(U) THEN IndexOf(V, h.stk[U[s]]) ELSE 0],
        arr |-> [j \in ArrIds |-> IF j <= Len(V) THEN h.arr[V[j]] ELSE <<>>],
        symbols |-> IndexOf(V, sy),
        held |-> [hd EXCEPT !.ref = IF @ = 0 THEN 0 ELSE IndexOf(U, @),
                            !.other = IF @ = 0 THEN 0 ELSE IndexOf(U, @)]]

Commit(p, h, sy, hd) ==
    LET c == Collect(p, h, sy, hd)
    IN /\ pda' = c.pda
       /\ stk' = c.stk
       /\ arr' = c.arr
       /\ symbols' = c.symbols
       /\ held' = c.held

\* The Stack s of heap h holds at most n elements.
Within(h, s, n) == Len(Contents(h, s)) <= n

\* ------------------------------------------------------------ observation
StackOf(a) == arr[stk[pda[a].stack]]
InputOf(a) == arr[stk[pda[a].input]]
SymbolsSeq == arr[symbols]
NoAct == [action |-> "none"]
Did(op, who) == [op |-> op, who |-> who, decision |-> "-", symbol |-> "-", act |-> NoAct]

NoHeld == [ref |-> 0, other |-> 0, kind |-> "-"]
\* What the caller sees of automaton a.
View(a) ==
    [state |-> pda[a].state, stack |-> StackOf(a), input |-> InputOf(a),
     result |-> pda[a].result, transition |-> pda[a].transition]
Drv0(made) ==
    [pc |-> "input", inputs |-> 0, fed |-> <<>>, got |-> <<>>,
     steps |-> 0, pushes |-> 0, deletes |-> 0, removed |-> 0, made |-> made]

\* ---------------------------------------------------------- initial state
\* The (initialState, initialStackSymbol) pairs automaton A is constructed with.
Initials ==
    {[state |-> "Q", stackSymbol |-> "Z0"], [state |-> "R", stackSymbol |-> "P"]}

\* Automaton A constructed with (s0, z0, T) for (s0, z0) in Initials and T in fs,
\* automaton B with (Q, Z0, paren), the caller's array variable holding an
\* empty array.
Constructed(fs) ==
    \E i \in Initials, f \in fs :
        LET a == NewAutomaton(EmptyHeap, i.state, i.stackSymbol, f)
            b == NewAutomaton(a.h, "Q", "Z0", "paren")
            y == NewArray(b.h, <<>>)
            c == Collect([x \in Automata |-> IF x = "A" THEN a.p ELSE b.p],
                         y.h, y.ref, NoHeld)
        IN /\ pda = c.pda
           /\ stk = c.stk
           /\ arr = c.arr
           /\ symbols = c.symbols
           /\ held = c.held
           /\ last = Did("new", "A")
           /\ drv = Drv0([state |-> i.state, stackSymbol |-> i.stackSymbol, transition |-> f])

\* ---------------------------------------------------------------- actions
\* The caller assigns a new array literal to its variable.
CallerNewArray(n) ==
    \E elems \in SeqsUpTo(InputAlphabet, n) :
        LET y == NewArray(Heap, elems)
        IN /\ Commit(pda, y.h, y.ref, held)
           /\ last' = Did("newArray", "caller")

\* The caller pushes onto or pops from the array its variable refers to.
CallerPush ==
    /\ Len(SymbolsSeq) < MaxIn
    /\ \E x \in InputAlphabet :
        Commit(pda, [Heap EXCEPT !.arr[symbols] = Append(@, x)], symbols, held)
    /\ last' = Did("callerPush", "caller")

CallerPop ==
    /\ SymbolsSeq # <<>>
    /\ Commit(pda, [Heap EXCEPT !.arr[symbols] = SubSeq(@, 1, Len(@) - 1)], symbols, held)
    /\ last' = Did("callerPop", "caller")

\* a.input(symbols)
SetInput(a) ==
    LET r == Input(Heap, pda[a], symbols)
    IN /\ Commit([pda EXCEPT ![a] = r.p], r.h, symbols, held)
       /\ last' = Did("input", a)

\* a.advance(), as long as no array grows beyond n
Step(a, n) ==
    LET r == Advance(Heap, pda[a])
    IN /\ Within(r.h, r.p.stack, n)
       /\ Commit([pda EXCEPT ![a] = r.p], r.h, symbols, held)
       /\ last' = [op |-> "advance", who |-> a,
                   query |-> Query(Heap, pda[a]),
                   decision |-> Action1(Heap, pda[a]).action,
                   symbol |-> InputSymbol(Heap, pda[a]),
                   act |-> Action2(Heap, pda[a])]

\* a.reset(); last.before keeps what the automaton was and whether the caller
\* held one of its Stacks.
DoReset(a) ==
    LET r == Reset(Heap, pda[a])
    IN /\ Commit([pda EXCEPT ![a] = r.p], r.h, symbols, held)
       /\ last' = [op |-> "reset", who |-> a, decision |-> "-", symbol |-> "-",
                   act |-> NoAct,
                   before |-> [state |-> pda[a].state, result |-> pda[a].result,
                               transition |-> pda[a].transition,
                               shared |-> held.ref \in {pda[a].stack, pda[a].input}]]

\* a.overrideState(state)
OverrideState(a) ==
    /\ \E state \in StateAlphabet :
        Commit([pda EXCEPT ![a].state = state], Heap, symbols, held)
    /\ last' = Did("overrideState", a)

\* a.overrideTransitionFunction(transition)
OverrideTransitionFunction(a) ==
    /\ \E f \in Functions :
        Commit([pda EXCEPT ![a].transition = f], Heap, symbols, held)
    /\ last' = Did("overrideTransitionFunction", a)

\* a.runStackAction(action)
RunStackAction(a) ==
    /\ \E action \in StackActions(StackAlphabet) :
        LET h == StackAction(Heap, pda[a].stack, action)
        IN Within(h, pda[a].stack, MaxStack) /\ Commit(pda, h, symbols, held)
    /\ last' = Did("runStackAction", a)

\* a.runInputAction(action)
RunInputAction(a) ==
    /\ \E action \in StackActions(InputAlphabet) :
        LET h == StackAction(Heap, pda[a].input, action)
        IN Within(h, pda[a].input, MaxIn) /\ Commit(pda, h, symbols, held)
    /\ last' = Did("runInputAction", a)

\* a.appendInputArray(input): the elements are pushed, the array is not kept.
AppendInputArray(a) ==
    /\ \E input \in SeqsUpTo(InputAlphabet, MaxIn) :
        LET h == StackAppendArray(Heap, pda[a].input, input)
        IN Within(h, pda[a].input, MaxIn) /\ Commit(pda, h, symbols, held)
    /\ last' = Did("appendInputArray", a)

\* held = a.rawGetStack(), held = a.rawGetRemainingInput()
RawGetStack(a) ==
    /\ Commit(pda, Heap, symbols, [ref |-> pda[a].stack, other |-> 0, kind |-> "stack"])
    /\ last' = Did("rawGetStack", a)

RawGetRemainingInput(a) ==
    /\ Commit(pda, Heap, symbols, [ref |-> pda[a].input, other |-> 0, kind |-> "input"])
    /\ last' = Did("rawGetRemainingInput", a)

\* held = a.copyStack(), held = a.copyRemainingInput(); a second Stack of the
\* same kind the caller holds in other stays there.
CopyStack(a) ==
    LET c == StackCopy(Heap, pda[a].stack)
    IN /\ Commit(pda, c.h, symbols,
                 [ref |-> c.ref, kind |-> "stack",
                  other |-> IF held.kind = "stack" THEN held.other ELSE 0])
       /\ last' = Did("copyStack", a)

CopyRemainingInput(a) ==
    LET c == StackCopy(Heap, pda[a].input)
    IN /\ Commit(pda, c.h, symbols,
                 [ref |-> c.ref, kind |-> "input",
                  other |-> IF held.kind = "input" THEN held.other ELSE 0])
       /\ last' = Did("copyRemainingInput", a)

\* a.replaceStack(held), a.replaceInput(held)
ReplaceStack(a) ==
    /\ held.kind = "stack"
    /\ Commit([pda EXCEPT ![a].stack = held.ref], Heap, symbols, held)
    /\ last' = Did("replaceStack", a)

ReplaceInput(a) ==
    /\ held.kind = "input"
    /\ Commit([pda EXCEPT ![a].input = held.ref], Heap, symbols, held)
    /\ last' = Did("replaceInput", a)

\* The caller copies a Stack of the automaton, clears the copy, appends items to
\* it, hands it to replaceStack or replaceInput and keeps no reference to it.
ReplaceStackBuilt(a) ==
    /\ \E items \in SeqsUpTo(StackAlphabet, MaxStack) :
        LET c == StackCopy(Heap, pda[a].stack)
            h == StackAppendArray(StackClear(c.h, c.ref), c.ref, items)
        IN Commit([pda EXCEPT ![a].stack = c.ref], h, symbols, held)
    /\ last' = Did("replaceStack", a)

ReplaceInputBuilt(a) ==
    /\ \E items \in SeqsUpTo(InputAlphabet, MaxIn) :
        LET c == StackCopy(Heap, pda[a].input)
            h == StackAppendArray(StackClear(c.h, c.ref), c.ref, items)
        IN Commit([pda EXCEPT ![a].input = c.ref], h, symbols, held)
    /\ last' = Did("replaceInput", a)

\* a.input([...]) with an array literal the caller keeps no reference to.
InputLiteral(a) ==
    /\ \E elems \in SeqsUpTo(InputAlphabet, MaxIn) :
        LET y == NewArray(Heap, elems)
            r == Input(y.h, pda[a], y.ref)
        IN Commit([pda EXCEPT ![a] = r.p], r.h, symbols, held)
    /\ last' = Did("input", a)

\* The caller runs held.action(action) on the Stack its variable refers to; a
\* Stack longer than MaxIn can only be shortened.
HeldAction ==
    /\ held.ref # 0
    /\ \E action \in StackActions(IF held.kind = "stack" THEN StackAlphabet ELSE InputAlphabet) :
        LET h == StackAction(Heap, held.ref, action)
        IN Within(h, held.ref, MaxIn) /\ Commit(pda, h, symbols, held)
    /\ last' = Did("heldAction", "caller")

\* The caller lets go of the Stack it holds.
DropHeld ==
    /\ held.ref # 0
    /\ Commit(pda, Heap, symbols, NoHeld)
    /\ last' = Did("dropHeld", "caller")

\* other = a.copyStack(), other = a.copyRemainingInput(): a second copy, kept
\* next to the one the caller already holds.
CopyStackAgain(a) ==
    /\ held.kind = "stack"
    /\ LET c == StackCopy(Heap, pda[a].stack)
       IN Commit(pda, c.h, symbols, [held EXCEPT !.other = c.ref])
    /\ last' = Did("copyStackAgain", a)

CopyRemainingInputAgain(a) ==
    /\ held.kind = "input"
    /\ LET c == StackCopy(Heap, pda[a].input)
       IN Commit(pda, c.h, symbols, [held EXCEPT !.other = c.ref])
    /\ last' = Did("copyRemainingInputAgain", a)

\* The values a Stack<StackAlphabet | null> holds.
Items == StackAlphabet \cup {null}

\* What a call of a Stack method by the caller leaves in last: the action
\* object if any, the value returned and the size the Stack had before.
Called(op, action, ret, size) ==
    [op |-> op, who |-> "caller", decision |-> "-", symbol |-> "-",
     act |-> action, ret |-> ret, size |-> size]

\* held.action(action), the value it returns kept.
CallAction ==
    /\ held.ref # 0
    /\ \E action \in StackActions(Items) :
        LET h == StackAction(Heap, held.ref, action)
        IN /\ Within(h, held.ref, MaxStack)
           /\ Commit(pda, h, symbols, held)
           /\ last' = Called("action", action, StackActionResult(Heap, held.ref, action),
                             Len(Contents(Heap, held.ref)))

\* held.pop(), held.head(), held.delete()
CallPop ==
    /\ held.ref # 0
    /\ Commit(pda, StackPop(Heap, held.ref), symbols, held)
    /\ last' = Called("pop", NoAct, StackPopped(Heap, held.ref),
                      Len(Contents(Heap, held.ref)))

CallHead ==
    /\ held.ref # 0
    /\ Commit(pda, Heap, symbols, held)
    /\ last' = Called("head", NoAct, StackHead(Heap, held.ref),
                      Len(Contents(Heap, held.ref)))

CallDelete ==
    /\ held.ref # 0
    /\ Commit(pda, StackDelete(Heap, held.ref), symbols, held)
    /\ last' = Called("delete", NoAct, undefined, Len(Contents(Heap, held.ref)))

\* What an accessor of automaton a leaves in last: the value it returned.
Got(op, a, ret) ==
    [op |-> op, who |-> a, decision |-> "-", symbol |-> "-", act |-> NoAct, ret |-> ret]

\* a.getResult(), a.getState(), a.getTransitionFunction(), a.getStackHead(),
\* a.getInputHead()
GetResult(a) ==
    /\ Commit(pda, Heap, symbols, held)
    /\ last' = Got("getResult", a, pda[a].result)

GetState(a) ==
    /\ Commit(pda, Heap, symbols, held)
    /\ last' = Got("getState", a, pda[a].state)

GetTransitionFunction(a) ==
    /\ Commit(pda, Heap, symbols, held)
    /\ last' = Got("getTransitionFunction", a, pda[a].transition)

GetStackHead(a) ==
    /\ Commit(pda, Heap, symbols, held)
    /\ last' = Got("getStackHead", a, StackHead(Heap, pda[a].stack))

GetInputHead(a) ==
    /\ Commit(pda, Heap, symbols, held)
    /\ last' = Got("getInputHead", a, StackHead(Heap, pda[a].input))

\* a.appendInputArray(input) with the array kept in last, the input growing to
\* at most MaxFeed symbols.
AppendInputArrayOf(a) ==
    \E input \in SeqsUpTo(InputAlphabet, MaxStack) :
        LET h == StackAppendArray(Heap, pda[a].input, input)
        IN /\ Within(h, pda[a].input, MaxFeed)
           /\ Commit(pda, h, symbols, held)
           /\ last' = [op |-> "appendInputArray", who |-> a, decision |-> "-",
                       symbol |-> "-", act |-> NoAct, items |-> input]

\* held.push(item), on a Stack of fewer than MaxStack items
CallPush(T) ==
    /\ held.ref # 0
    /\ \E item \in T :
        LET h == StackPush(Heap, held.ref, item)
        IN /\ Within(h, held.ref, MaxStack)
           /\ Commit(pda, h, symbols, held)
           /\ last' = Called("push", [action |-> "push", item |-> item], undefined,
                             Len(Contents(Heap, held.ref)))

\* The caller sets the input of A from an array literal, takes the input Stack
\* with rawGetRemainingInput() and calls push, pop and head on it. drv.fed is
\* the array and drv.got what pop() returned since, both kept until the first
\* push; drv.pushes tells whether there was one.
LifoInput ==
    /\ \E elems \in SeqsUpTo(InputAlphabet, MaxFeed) :
        LET y == NewArray(Heap, elems)
            r == Input(y.h, pda["A"], y.ref)
        IN /\ Commit([pda EXCEPT !["A"] = r.p], r.h, symbols, held)
           /\ drv' = [drv EXCEPT !.fed = elems, !.got = <<>>, !.pushes = 0]
    /\ last' = Did("input", "A")

LifoPop ==
    /\ held.ref = pda["A"].input
    /\ Len(drv.got) <= Len(drv.fed)
    /\ CallPop
    /\ drv' = [drv EXCEPT !.got = IF drv.pushes = 0 THEN Append(@, last'.ret) ELSE @]

LifoHead ==
    /\ held.ref = pda["A"].input
    /\ CallHead
    /\ UNCHANGED drv

LifoPush ==
    /\ held.ref = pda["A"].input
    /\ CallPush(InputAlphabet \cup {null})
    /\ drv' = [drv EXCEPT !.pushes = 1, !.fed = <<>>, !.got = <<>>]

\* One automaton under every operation, the caller keeping no reference.
Init == Constructed({"paren"})

Next ==
    \/ InputLiteral("A") /\ UNCHANGED drv
    \/ Step("A", MaxStack) /\ UNCHANGED drv
    \/ DoReset("A") /\ UNCHANGED drv
    \/ OverrideState("A") /\ UNCHANGED drv
    \/ OverrideTransitionFunction("A") /\ UNCHANGED drv
    \/ RunStackAction("A") /\ UNCHANGED drv
    \/ RunInputAction("A") /\ UNCHANGED drv
    \/ AppendInputArray("A") /\ UNCHANGED drv
    \/ ReplaceStackBuilt("A") /\ UNCHANGED drv
    \/ ReplaceInputBuilt("A") /\ UNCHANGED drv

Spec == Init /\ [][Next]_vars

\* One automaton fed from the caller's array variable, which the caller keeps.
NextCaller ==
    \/ CallerNewArray(MaxIn) /\ UNCHANGED drv
    \/ CallerPush /\ UNCHANGED drv
    \/ CallerPop /\ UNCHANGED drv
    \/ SetInput("A") /\ UNCHANGED drv
    \/ Step("A", MaxStack) /\ UNCHANGED drv
    \/ DoReset("A") /\ UNCHANGED drv

SpecCaller == Init /\ [][NextCaller]_vars

\* Two automata, both fed from the caller's array variable.
NextTwo ==
    \/ CallerNewArray(MaxIn) /\ UNCHANGED drv
    \/ \E a \in Automata :
        \/ SetInput(a) /\ UNCHANGED drv
        \/ Step(a, MaxStack) /\ UNCHANGED drv
        \/ DoReset(a) /\ UNCHANGED drv
        \/ AppendInputArray(a) /\ UNCHANGED drv
        \/ RunInputAction(a) /\ UNCHANGED drv

SpecTwo == Init /\ [][NextTwo]_vars

\* One automaton and the Stack references the caller holds.
NextRaw ==
    \/ InputLiteral("A") /\ UNCHANGED drv
    \/ Step("A", MaxStack) /\ UNCHANGED drv
    \/ DoReset("A") /\ UNCHANGED drv
    \/ RawGetStack("A") /\ UNCHANGED drv
    \/ RawGetRemainingInput("A") /\ UNCHANGED drv
    \/ CopyStack("A") /\ UNCHANGED drv
    \/ CopyRemainingInput("A") /\ UNCHANGED drv
    \/ ReplaceStack("A") /\ UNCHANGED drv
    \/ ReplaceInput("A") /\ UNCHANGED drv
    \/ HeldAction /\ UNCHANGED drv
    \/ DropHeld /\ UNCHANGED drv

SpecRaw == Init /\ [][NextRaw]_vars

\* ------------------------------------------------------------ driver loop
\* A driver feeds automaton A an array and calls advance() until the result is
\* set; it may feed a second array before that, and may go on stepping after.
\* drv tallies what the steps obtained: got is the symbols handed to the
\* continuation since the last input(), pushes and deletes count the Push and
\* Delete stack actions of Continue, removed the Deletes on a non-empty stack.
Tally(d, h, p) ==
    LET act == Action2(h, p)
        sa == IF act.action = "continue" THEN act.stackAction.action ELSE "-"
    IN [d EXCEPT
          !.steps = @ + 1,
          !.got = IF Action1(h, p).action = "pop" THEN Append(@, InputSymbol(h, p)) ELSE @,
          !.pushes = IF sa = "push" THEN @ + 1 ELSE @,
          !.deletes = IF sa = "delete" THEN @ + 1 ELSE @,
          !.removed = IF sa = "delete" /\ Contents(h, p.stack) # <<>> THEN @ + 1 ELSE @]

DriverInput ==
    /\ drv.pc \in {"input", "run"}
    /\ drv.inputs < MaxFeeds
    /\ \E elems \in SeqsUpTo(InputAlphabet, MaxFeed) :
        LET y == NewArray(Heap, elems)
            r == Input(y.h, pda["A"], y.ref)
        IN /\ Commit([pda EXCEPT !["A"] = r.p], r.h, y.ref, held)
           /\ drv' = [drv EXCEPT !.pc = "run", !.inputs = @ + 1, !.fed = elems, !.got = <<>>]
    /\ last' = Did("input", "A")

DriverStep ==
    /\ drv.pc = "run"
    /\ pda["A"].result = null
    /\ drv.steps < MaxSteps
    /\ Step("A", MaxSteps + 1)
    /\ drv' = [Tally(drv, Heap, pda["A"]) EXCEPT
                 !.pc = IF pda'["A"].result = null THEN "run" ELSE "done"]

DriverStepOn ==
    /\ drv.pc \in {"done", "over"}
    /\ drv.steps < MaxSteps
    /\ Step("A", MaxSteps + 1)
    /\ drv' = [Tally(drv, Heap, pda["A"]) EXCEPT !.pc = "over"]

NextDriver ==
    \/ DriverInput
    \/ DriverStep
    \/ DriverStepOn

InitDriver == Constructed(Functions)

SpecDriver == InitDriver /\ [][NextDriver]_vars

\* One automaton and two copies of its Stacks in the caller's hands.
NextCopy ==
    \/ InputLiteral("A") /\ UNCHANGED drv
    \/ Step("A", MaxStack) /\ UNCHANGED drv
    \/ CopyStack("A") /\ UNCHANGED drv
    \/ CopyRemainingInput("A") /\ UNCHANGED drv
    \/ CopyStackAgain("A") /\ UNCHANGED drv
    \/ CopyRemainingInputAgain("A") /\ UNCHANGED drv
    \/ HeldAction /\ UNCHANGED drv

SpecCopy == Init /\ [][NextCopy]_vars

\* One automaton whose control stack the caller has taken by rawGetStack() and
\* calls the Stack methods on.
NextStack ==
    \/ RawGetStack("A") /\ UNCHANGED drv
    \/ CallAction /\ UNCHANGED drv
    \/ CallPop /\ UNCHANGED drv
    \/ CallHead /\ UNCHANGED drv
    \/ CallDelete /\ UNCHANGED drv
    \/ InputLiteral("A") /\ UNCHANGED drv
    \/ Step("A", MaxStack) /\ UNCHANGED drv

SpecStack == Init /\ [][NextStack]_vars

\* One automaton stepped and fed, and its accessors called in between.
NextAccess ==
    \/ InputLiteral("A") /\ UNCHANGED drv
    \/ Step("A", MaxStack) /\ UNCHANGED drv
    \/ GetResult("A") /\ UNCHANGED drv
    \/ GetState("A") /\ UNCHANGED drv
    \/ GetTransitionFunction("A") /\ UNCHANGED drv
    \/ GetStackHead("A") /\ UNCHANGED drv
    \/ GetInputHead("A") /\ UNCHANGED drv
    \/ CopyStack("A") /\ UNCHANGED drv
    \/ CopyRemainingInput("A") /\ UNCHANGED drv

SpecAccess == Init /\ [][NextAccess]_vars

\* One automaton whose input is set, appended to and consumed.
NextAppend ==
    \/ InputLiteral("A") /\ UNCHANGED drv
    \/ AppendInputArrayOf("A") /\ UNCHANGED drv
    \/ Step("A", MaxStack) /\ UNCHANGED drv

SpecAppend == Init /\ [][NextAppend]_vars

\* One automaton's input Stack built from an array and used as a Stack.
NextLifo ==
    \/ LifoInput
    \/ RawGetRemainingInput("A") /\ UNCHANGED drv
    \/ LifoPop
    \/ LifoHead
    \/ LifoPush

SpecLifo == Init /\ [][NextLifo]_vars

\* The driver loop alone: one input() and then advance() until the result is
\* set, the loop calling advance() again as long as it is not.
DriverInputOnce ==
    /\ drv.inputs = 0
    /\ DriverInput

NextLoop ==
    \/ DriverInputOnce
    \/ DriverStep

\* The states in which the loop's next advance() can be taken: the guard of
\* DriverStep, whose advance() itself has no precondition.
DriverStepEnabled ==
    /\ drv.pc = "run"
    /\ pda["A"].result = null
    /\ drv.steps < MaxSteps

\* The loop keeps calling advance() while it can: weak fairness of DriverStep,
\* WF_vars(DriverStep), written out with DriverStepEnabled for ENABLED.
LoopKeepsStepping ==
    \/ []<>(~DriverStepEnabled)
    \/ []<><<DriverStep>>_vars

SpecLoop == InitDriver /\ [][NextLoop]_vars /\ LoopKeepsStepping

\* ----------------------------------------------------------------- claims
Max(x, y) == IF x >= y THEN x ELSE y
Balanced == <<"(", ")", "(", ")">>

\* C1: after input(symbols) the continuations of the popping steps receive the
\* elements of symbols in their original order, first element first, then
\* undefined once all are consumed; right after input(symbols) the remaining
\* input is symbols alone, whatever remained before.
C1_FirstElementFirst ==
    /\ \A i \in 1..Len(drv.got) :
          drv.got[i] = IF i <= Len(drv.fed) THEN drv.fed[i] ELSE undefined
    /\ (drv.pc = "run" /\ last.op = "input") => InputOf("A") = drv.fed

\* C2: the balanced-parentheses recognizer constructed with (Q, Z0), fed
\* ['(', ')', '(', ')'] and stepped until the result is set, accepts; fed [')']
\* it rejects on the first step.
C2_ParenScenario ==
    (/\ drv.made = [state |-> "Q", stackSymbol |-> "Z0", transition |-> "paren"]
     /\ drv.inputs = 1
     /\ drv.pc = "done")
    => /\ drv.fed = Balanced => pda["A"].result = "accept"
       /\ drv.fed = <<")">> => (pda["A"].result = "reject" /\ drv.steps = 1)

\* C3 as stated: without a reset the result, once accept or reject, is not
\* changed by any later operation.
C3_ResultSetOnce ==
    [][(last'.op # "reset" /\ pda["A"].result # null)
         => pda'["A"].result = pda["A"].result]_vars

\* C3 as amended: the result changes only in an advance() whose action is
\* Resolve, which sets it to that Resolve's result whether or not a result was
\* already set, and in reset(), which alone makes it absent again.
C3_ResultChangesByResolveOrReset ==
    [][pda'["A"].result # pda["A"].result
         => \/ last'.op = "reset" /\ pda'["A"].result = null
            \/ /\ last'.op = "advance"
               /\ last'.act.action = "resolve"
               /\ pda'["A"].result = last'.act.result]_vars

C3_Witness ==
    /\ last.op = "advance"
    /\ last.act.action = "resolve"
    /\ last.decision = "ignore"
    /\ pda["A"].result = "reject"

\* C4: the automaton alone owns its input: a change the caller makes to the
\* array it passed to input() does not change the remaining input, and a step
\* does not change the caller's array.
C4_ExclusiveOwnership ==
    [][/\ last'.op \in {"callerPush", "callerPop"} => InputOf("A")' = InputOf("A")
       /\ last'.op = "advance" => SymbolsSeq' = SymbolsSeq]_vars

\* C5: no operation on one automaton changes the state, control stack,
\* remaining input or result of the other.
C5_Independent ==
    [][\A a \in Automata : last'.who = a =>
          \A b \in Automata \ {a} : View(b)' = View(b)]_vars

\* C6 as stated: the control stack's size is max(0, 1 + pushes - deletes),
\* every Delete counted, those on an empty stack too.
C6_SizeCountsEveryDelete ==
    Len(StackOf("A")) = Max(0, 1 + drv.pushes - drv.deletes)

\* C6 as amended: the control stack's size is 1 + pushes - the Deletes applied
\* to a non-empty stack; a Delete on an empty stack removes nothing and is not
\* counted.
C6_SizeCountsRemovals ==
    Len(StackOf("A")) = 1 + drv.pushes - drv.removed

C6_Witness ==
    /\ drv.deletes > drv.removed
    /\ drv.pushes >= 1
    /\ Len(StackOf("A")) = 1

\* C7: reset() leaves the state and the control stack as the constructor made
\* them, the result absent and the input empty, and keeps the transition
\* function it found, whatever operations came before.
C7_ResetRestores ==
    last.op = "reset" =>
        /\ pda["A"].state = drv.made.state
        /\ StackOf("A") = <<drv.made.stackSymbol>>
        /\ pda["A"].result = null
        /\ InputOf("A") = <<>>
        /\ pda["A"].transition = last.before.transition

C7_Witness ==
    /\ last.op = "reset"
    /\ last.before.transition # drv.made.transition
    /\ last.before.state # drv.made.state
    /\ last.before.result # null

\* C8: right after construction with (s0, z0, T) the state is s0, the control
\* stack holds z0 alone, the result is absent and the remaining input is empty.
C8_AsConstructed ==
    last.op = "new" =>
        /\ pda["A"].state = drv.made.state
        /\ StackOf("A") = <<drv.made.stackSymbol>>
        /\ pda["A"].result = null
        /\ InputOf("A") = <<>>

C8_Witness ==
    /\ last.op = "new"
    /\ drv.made = [state |-> "R", stackSymbol |-> "P", transition |-> "scan"]
    /\ StackOf("A") = <<"P">>

\* C9: a step whose action is Resolve sets the result to the Resolve's result
\* and leaves the control stack's contents and the state as they were.
C9_ResolveFrame ==
    [][(last'.op = "advance" /\ last'.act.action = "resolve")
         => /\ pda'["A"].result = last'.act.result
            /\ StackOf("A")' = StackOf("A")
            /\ pda'["A"].state = pda["A"].state]_vars

C9_Witness ==
    /\ last.op = "advance"
    /\ last.act = Resolve("accept")
    /\ last.decision = "pop"
    /\ pda["A"].result = "accept"
    /\ Len(StackOf("A")) = 2

\* C10: a step whose action is Continue leaves the state at newState and the
\* control stack as it was with the stack action applied: Push puts the item
\* on top, Delete removes the top if there is one, Ignore changes nothing; the
\* result is as before the step.
Applied(stack, stackAction) ==
    IF stackAction.action = "push" THEN Append(stack, stackAction.item)
    ELSE IF stackAction.action = "delete"
    THEN (IF stack = <<>> THEN <<>> ELSE SubSeq(stack, 1, Len(stack) - 1))
    ELSE stack

C10_ContinueEffect ==
    [][(last'.op = "advance" /\ last'.act.action = "continue")
         => /\ pda'["A"].state = last'.act.state
            /\ StackOf("A")' = Applied(StackOf("A"), last'.act.stackAction)
            /\ pda'["A"].result = pda["A"].result]_vars

C10_Witness ==
    /\ last.op = "advance"
    /\ last.act.action = "continue"
    /\ last.act.stackAction = [action |-> "push", item |-> "P"]
    /\ pda["A"].state = last.act.state
    /\ Len(StackOf("A")) = 2
    /\ pda["A"].result # null

\* C11: a step on an empty control stack calls the transition function with
\* (state, undefined) and does what it returns: the result becomes the
\* Resolve's result if it resolves and stays as it was if it continues; the
\* empty stack alone sets no result.
C11_EmptyStackAsksTransition ==
    [][(last'.op = "advance" /\ StackOf("A") = <<>>) =>
         LET decision == Transition(pda["A"].transition, pda["A"].state, undefined)
             action == IF decision.action = "pop"
                       THEN decision.continue[last'.symbol] ELSE decision.continue
         IN /\ last'.query = [state |-> pda["A"].state, stackSymbol |-> undefined]
            /\ last'.act = action
            /\ pda'["A"].result =
                 IF action.action = "resolve" THEN action.result ELSE pda["A"].result
            /\ action.action = "continue" => pda'["A"].state = action.state]_vars

C11_Witness ==
    /\ last.op = "advance"
    /\ last.query.stackSymbol = undefined
    /\ last.act.action = "continue"
    /\ pda["A"].result = null


\* C12: a step with an Ignore input decision leaves the input as it was; a step
\* with a Pop decision on a non-empty input removes exactly one symbol and hands
\* that symbol to the continuation; on an empty input the continuation gets
\* undefined and the input stays empty.
RemovedOne(before, after, x) ==
    \E i \in 1..Len(before) :
        /\ before[i] = x
        /\ after = SubSeq(before, 1, i - 1) \o SubSeq(before, i + 1, Len(before))

C12_InputDecision ==
    [][last'.op = "advance" =>
         LET decision == Transition(pda["A"].transition, pda["A"].state,
                                    StackHead(Heap, pda["A"].stack))
         IN /\ last'.decision = decision.action
            /\ last'.decision = "ignore" =>
                 /\ InputOf("A")' = InputOf("A")
                 /\ last'.act = decision.continue
            /\ last'.decision = "pop" =>
                 /\ last'.act = decision.continue[last'.symbol]
                 /\ InputOf("A") # <<>> =>
                      RemovedOne(InputOf("A"), InputOf("A")', last'.symbol)
                 /\ InputOf("A") = <<>> =>
                      (last'.symbol = undefined /\ InputOf("A")' = <<>>)]_vars

C12_Witness ==
    /\ last.op = "advance"
    /\ last.decision = "pop"
    /\ last.symbol = ")"
    /\ InputOf("A") = <<"(", ")", "(">>


\* C13: a step calls the transition function once, with the state and the top
\* of the control stack as they were when the step began, and what the step
\* leaves is what that one call's action makes of the automaton: at most one
\* push or one removal on the control stack, at most one symbol taken from the
\* input, no second transition.
OneMutation(before, after) ==
    \/ after = before
    \/ \E x \in StackAlphabet : after = Append(before, x)
    \/ before # <<>> /\ after = SubSeq(before, 1, Len(before) - 1)

C13_OneTransition ==
    [][last'.op = "advance" =>
         /\ last'.query = [state |-> pda["A"].state,
                           stackSymbol |-> IF StackOf("A") = <<>> THEN undefined
                                           ELSE StackOf("A")[Len(StackOf("A"))]]
         /\ OneMutation(StackOf("A"), StackOf("A")')
         /\ Len(InputOf("A")) - Len(InputOf("A")') \in {0, 1}
         /\ IF last'.act.action = "resolve"
            THEN /\ StackOf("A")' = StackOf("A")
                 /\ pda'["A"] = [pda["A"] EXCEPT !.result = last'.act.result]
            ELSE /\ StackOf("A")' = Applied(StackOf("A"), last'.act.stackAction)
                 /\ pda'["A"] = [pda["A"] EXCEPT !.state = last'.act.state]]_vars

C13_Witness ==
    /\ last.op = "advance"
    /\ last.query = [state |-> "Q", stackSymbol |-> "P"]
    /\ last.act = Continue([action |-> "delete"], "Q")
    /\ StackOf("A") = <<"Z0">>
    /\ drv.steps = 2


\* C14: copyStack() and copyRemainingInput() return a Stack with the symbols of
\* the automaton's Stack in the same order and leave the automaton as it was;
\* an action on a copy changes neither the automaton nor the other copy, and
\* an advance() or input() of the automaton changes no copy.
HeldSeq == IF held.ref = 0 THEN <<>> ELSE arr[stk[held.ref]]
OtherSeq == IF held.other = 0 THEN <<>> ELSE arr[stk[held.other]]

C14_CopiesIndependent ==
    [][/\ last'.op = "copyStack" =>
            (HeldSeq' = StackOf("A") /\ View("A")' = View("A")
             /\ (held.kind = "stack" => OtherSeq' = OtherSeq))
       /\ last'.op = "copyRemainingInput" =>
            (HeldSeq' = InputOf("A") /\ View("A")' = View("A")
             /\ (held.kind = "input" => OtherSeq' = OtherSeq))
       /\ last'.op = "copyStackAgain" =>
            (OtherSeq' = StackOf("A") /\ View("A")' = View("A") /\ HeldSeq' = HeldSeq)
       /\ last'.op = "copyRemainingInputAgain" =>
            (OtherSeq' = InputOf("A") /\ View("A")' = View("A") /\ HeldSeq' = HeldSeq)
       /\ last'.op = "heldAction" => (View("A")' = View("A") /\ OtherSeq' = OtherSeq)
       /\ last'.op \in {"advance", "input"} =>
            (HeldSeq' = HeldSeq /\ OtherSeq' = OtherSeq)]_vars

C14_Witness ==
    /\ last.op = "advance"
    /\ held.kind = "stack"
    /\ held.other # 0
    /\ HeldSeq = <<"P">>
    /\ OtherSeq = <<"Z0">>
    /\ StackOf("A") = <<"Z0", "P">>


\* C15: action({action: "pop", default: d}) on an empty Stack returns d and
\* leaves it empty; on a non-empty Stack, whatever value is on top, it returns
\* the top item and removes exactly that item.
C15_PopReturnsTop ==
    [][(last'.op = "action" /\ last'.act.action = "pop") =>
         IF HeldSeq = <<>>
         THEN last'.ret = last'.act.default /\ HeldSeq' = <<>>
         ELSE /\ last'.ret = HeldSeq[Len(HeldSeq)]
              /\ HeldSeq' = SubSeq(HeldSeq, 1, Len(HeldSeq) - 1)]_vars


\* C16: an automaton constructed with (s0, z0, T), where T on (s0, z0) pops the
\* input and resolves accept when the symbol popped is undefined, has the
\* result accept after input([]) and exactly one advance().
AcceptsOnEmptyInput(made) ==
    LET decision == Transition(made.transition, made.state, made.stackSymbol)
    IN /\ decision.action = "pop"
       /\ decision.continue[undefined] = Resolve("accept")

C16_EmptyInputAccepts ==
    (/\ AcceptsOnEmptyInput(drv.made)
     /\ drv.inputs = 1
     /\ drv.fed = <<>>
     /\ drv.steps = 1)
    => pda["A"].result = "accept"

C16_Witness ==
    /\ AcceptsOnEmptyInput(drv.made)
    /\ drv.inputs = 1
    /\ drv.fed = <<>>
    /\ drv.steps = 1
    /\ last.op = "advance"
    /\ last.symbol = undefined
    /\ pda["A"].result = "accept"


\* C17: exhaustion gives undefined, never a failure: pop() and head() on an
\* empty Stack return undefined and leave it empty, delete() on an empty Stack
\* leaves it empty, and an advance() on an empty control stack or an empty
\* input hands undefined to the transition function or to the continuation
\* and ends as any other step, with the action it obtained applied.
C17_ExhaustionIsAbsent ==
    [][/\ (last'.op \in {"pop", "head"} /\ HeldSeq = <<>>) =>
            (last'.ret = undefined /\ HeldSeq' = <<>>)
       /\ (last'.op = "delete" /\ HeldSeq = <<>>) => HeldSeq' = <<>>
       /\ (last'.op = "advance" /\ StackOf("A") = <<>>) =>
            last'.query = [state |-> pda["A"].state, stackSymbol |-> undefined]
       /\ (last'.op = "advance" /\ InputOf("A") = <<>> /\ last'.decision = "pop") =>
            (last'.symbol = undefined /\ InputOf("A")' = <<>>)
       /\ (last'.op = "advance" /\ (StackOf("A") = <<>> \/ InputOf("A") = <<>>)) =>
            IF last'.act.action = "resolve"
            THEN /\ pda'["A"].result = last'.act.result
                 /\ StackOf("A")' = StackOf("A")
            ELSE /\ pda'["A"].state = last'.act.state
                 /\ StackOf("A")' = Applied(StackOf("A"), last'.act.stackAction)]_vars

C17_Witness ==
    /\ last.op = "advance"
    /\ last.query.stackSymbol = undefined
    /\ last.decision = "pop"
    /\ last.symbol = undefined
    /\ held.ref # 0
    /\ HeldSeq = <<>>


\* C18: getResult, getState, getTransitionFunction, copyRemainingInput,
\* copyStack, getStackHead and getInputHead leave the state, the control stack,
\* the input, the result and the transition function of the automaton as they
\* were, in whatever order and however often they are called.
Accessors ==
    {"getResult", "getState", "getTransitionFunction", "copyRemainingInput",
     "copyStack", "getStackHead", "getInputHead"}

C18_AccessorsReadOnly ==
    [][last'.op \in Accessors => (View("A")' = View("A") /\ pda' = pda)]_vars

C18_Witness ==
    /\ last.op = "getInputHead"
    /\ last.ret = "("
    /\ held.kind = "stack"
    /\ HeldSeq = <<"Z0", "P">>
    /\ StackOf("A") = <<"Z0">>
    /\ pda["A"].result = "reject"


\* C19: action({action: "clear"}) leaves the Stack empty whatever it held
\* (nothing, one item, several items), and a pop() or head() that follows
\* returns undefined.
C19_ClearEmpties ==
    [][/\ (last'.op = "action" /\ last'.act.action = "clear") =>
            (HeldSeq' = <<>> /\ last'.ret = undefined)
       /\ (last.op = "action" /\ last.act.action = "clear"
           /\ last'.op \in {"pop", "head"}) =>
            (last'.ret = undefined /\ HeldSeq' = <<>>)]_vars

C19_Witness ==
    /\ last.op = "action"
    /\ last.act.action = "clear"
    /\ last.size = MaxStack
    /\ HeldSeq = <<>>


\* C20: an advance() called when a step has already set the result calls the
\* transition function again with the current state and the top of the control
\* stack and applies what it returns: a Resolve replaces the result, a Continue
\* changes the control stack and the state and leaves the old result set.
C20_StepAfterResolution ==
    [][(last'.op = "advance" /\ pda["A"].result # null) =>
         LET decision == Transition(pda["A"].transition, pda["A"].state,
                                    StackHead(Heap, pda["A"].stack))
             action == IF decision.action = "pop"
                       THEN decision.continue[last'.symbol] ELSE decision.continue
         IN /\ last'.query = [state |-> pda["A"].state,
                              stackSymbol |-> StackHead(Heap, pda["A"].stack)]
            /\ last'.act = action
            /\ IF action.action = "resolve"
               THEN /\ pda'["A"].result = action.result
                    /\ pda'["A"].state = pda["A"].state
                    /\ StackOf("A")' = StackOf("A")
               ELSE /\ pda'["A"].result = pda["A"].result
                    /\ pda'["A"].state = action.state
                    /\ StackOf("A")' = Applied(StackOf("A"), action.stackAction)]_vars

C20_Witness ==
    /\ drv.made = [state |-> "Q", stackSymbol |-> "Z0", transition |-> "paren"]
    /\ drv.inputs = 1
    /\ drv.fed = <<")">>
    /\ drv.steps = 2
    /\ drv.pc = "over"
    /\ last.op = "advance"
    /\ last.act = Resolve("accept")
    /\ pda["A"].result = "accept"


\* C21: appendArray(items) leaves a Stack as push of each element of items in
\* order leaves it, and appendInputArray(items) keeps every symbol the input
\* held, in place and in order, with all of items added on top.
RECURSIVE PushEach(_, _, _)
PushEach(h, s, items) ==
    IF items = <<>> THEN h
    ELSE PushEach(StackPush(h, s, Head(items)), s, Tail(items))

C21_AppendIsRepeatedPush ==
    [][last'.op = "appendInputArray" =>
         /\ InputOf("A")' = Contents(PushEach(Heap, pda["A"].input, last'.items),
                                     pda["A"].input)
         /\ Len(InputOf("A")') = Len(InputOf("A")) + Len(last'.items)
         /\ SubSeq(InputOf("A")', 1, Len(InputOf("A"))) = InputOf("A")
         /\ SubSeq(InputOf("A")', Len(InputOf("A")) + 1, Len(InputOf("A")')) = last'.items
         /\ StackOf("A")' = StackOf("A")]_vars

C21_Witness ==
    /\ last.op = "appendInputArray"
    /\ last.items = <<"(", ")">>
    /\ InputOf("A") = <<")", "(", "(", ")">>


\* C22: a Stack built from an array has the array's last element on top and
\* pop() called repeatedly returns the elements last to first, then undefined;
\* push(x) puts x on top, a head() or pop() right after it returns x, and that
\* pop() leaves the Stack as it was before the push.
C22_LastInFirstOut ==
    [][/\ last'.op = "input" => InputOf("A")' = drv'.fed
       /\ (last'.op = "head" /\ drv.got = <<>> /\ drv.pushes = 0) =>
            last'.ret = IF drv.fed = <<>> THEN undefined ELSE drv.fed[Len(drv.fed)]
       /\ (last'.op = "pop" /\ drv.pushes = 0) =>
            /\ drv'.got = Append(drv.got, last'.ret)
            /\ \A i \in 1..Len(drv'.got) :
                 drv'.got[i] = IF i <= Len(drv.fed) THEN Reverse(drv.fed)[i] ELSE undefined
       /\ last'.op = "push" => HeldSeq' = Append(HeldSeq, last'.act.item)
       /\ (last.op = "push" /\ last'.op \in {"head", "pop"}) => last'.ret = last.act.item
       /\ (last.op = "push" /\ last'.op = "pop") =>
            (HeldSeq = Append(HeldSeq', last.act.item) /\ Len(HeldSeq') = last.size)]_vars

C22_Witness ==
    /\ last.op = "pop"
    /\ drv.pushes = 0
    /\ drv.fed = <<"(", "(", ")">>
    /\ drv.got = <<")", "(", "(", undefined>>


\* C23: a step with a Pop input decision whose continuation returns Resolve
\* has consumed the symbol all the same: the control stack and the state are
\* as before the step and the input, if it was not empty, is shorter by the
\* one symbol the continuation was given.
C23_ResolveConsumesInput ==
    [][(/\ last'.op = "advance"
        /\ last'.decision = "pop"
        /\ last'.act.action = "resolve") =>
         /\ StackOf("A")' = StackOf("A")
         /\ pda'["A"].state = pda["A"].state
         /\ InputOf("A") # <<>> =>
              /\ Len(InputOf("A")') = Len(InputOf("A")) - 1
              /\ InputOf("A") = Append(InputOf("A")', last'.symbol)
         /\ InputOf("A") = <<>> => InputOf("A")' = <<>>]_vars

C23_Witness ==
    /\ last.op = "advance"
    /\ last.decision = "pop"
    /\ last.act = Resolve("reject")
    /\ last.symbol = ")"
    /\ InputOf("A") = <<"(", "(">>
    /\ StackOf("A") = <<"Z0">>
    /\ drv.steps = 1


\* C24: reset() gives the automaton new Stacks: a Stack the caller holds from
\* rawGetStack() or rawGetRemainingInput(), or handed in with replaceStack()
\* or replaceInput(), keeps its contents across reset() and is no Stack of the
\* automaton any more, so an action on it leaves the automaton as it is; while
\* it is a Stack of the automaton, an action on it is an action on the
\* automaton's Stack, and the next advance() reads its top.
SharedStack == held.ref # 0 /\ held.ref = pda["A"].stack
SharedInput == held.ref # 0 /\ held.ref = pda["A"].input
Top(s) == IF s = <<>> THEN undefined ELSE s[Len(s)]

C24_ResetInstallsNewStacks ==
    [][/\ last'.op = "reset" =>
            (HeldSeq' = HeldSeq /\ ~SharedStack' /\ ~SharedInput')
       /\ (last'.op = "heldAction" /\ ~SharedStack /\ ~SharedInput) =>
            View("A")' = View("A")
       /\ (last'.op = "heldAction" /\ SharedStack) =>
            (StackOf("A")' = HeldSeq' /\ SharedStack')
       /\ (last'.op = "heldAction" /\ SharedInput) =>
            (InputOf("A")' = HeldSeq' /\ SharedInput')
       /\ (last.op = "heldAction" /\ SharedStack /\ last'.op = "advance") =>
            last'.query.stackSymbol = Top(HeldSeq)
       /\ (last.op = "heldAction" /\ SharedInput /\ last'.op = "advance"
           /\ last'.decision = "pop") =>
            last'.symbol = Top(HeldSeq)]_vars

C24_Witness ==
    /\ last.op = "reset"
    /\ last.before.shared
    /\ held.kind = "stack"
    /\ HeldSeq = <<"Z0", "P">>
    /\ StackOf("A") = <<"Z0">>


\* C25: with a transition function that always returns a pop decision and
\* resolves whenever the symbol popped is undefined, and an input of n symbols
\* set once, the loop that calls advance() until the result is set ends, after
\* at most n + 1 steps: every step that does not resolve leaves the input one
\* symbol shorter.
PopsAndResolvesOnAbsent(f) ==
    \A state \in StateAlphabet, stackSymbol \in StackAlphabet \cup {undefined} :
        /\ Transition(f, state, stackSymbol).action = "pop"
        /\ Transition(f, state, stackSymbol).continue[undefined].action = "resolve"

C25_InputBoundsSteps ==
    PopsAndResolvesOnAbsent(drv.made.transition) =>
        /\ drv.pc = "run" =>
             /\ pda["A"].result = null
             /\ Len(InputOf("A")) = Len(drv.fed) - drv.steps
        /\ drv.pc = "done" =>
             /\ pda["A"].result # null
             /\ drv.steps <= Len(drv.fed) + 1

C25_LoopTerminates ==
    /\ []C25_InputBoundsSteps
    /\ (drv.pc = "run" /\ PopsAndResolvesOnAbsent(drv.made.transition)) ~> (drv.pc = "done")

C25_Witness ==
    /\ PopsAndResolvesOnAbsent(drv.made.transition)
    /\ drv.pc = "done"
    /\ Len(drv.fed) = MaxFeed
    /\ drv.steps = MaxFeed + 1
    /\ InputOf("A") = <<>>
    /\ pda["A"].result = "accept"
====
